---- MODULE Spec2Model ----
\* A model of src/error.rs of grpc-rs: the Error enum, its Display, description
\* and cause implementations, and the two cfg-gated conversions from codec
\* library errors.
\*
\* Strings that are rendered (Debug / Display output, hosts, messages) are
\* sequences of one-character strings, so that escaping, containment and
\* injectivity of the rendering are computed and not assumed.  The fixed
\* description literals are opaque TLA+ strings, compared for equality only.
\* An Option<T> is a sequence of length at most one: <<>> is None, <<x>> is
\* Some(x).  An output variable holds <<>> until its operation has returned,
\* then <<r>> for the returned r.
EXTENDS Integers, Sequences, FiniteSets, TLC

VARIABLES
    features,   \* the codec features the crate is built with
    err,        \* Option<Error>: the Error value under inspection
    src,        \* Option: the codec library error err was converted from
    desc,       \* what description() last returned on err
    cau,        \* what cause() last returned on err
    shown,      \* what Display last wrote for err
    calls,      \* number of inspection calls made on err
    pair,       \* two Error values held side by side: <<Option, Option>>
    pDesc,      \* what description() last returned on each of the two
    pShown      \* what Display last wrote for each of the two

vars == <<features, err, src, desc, cau, shown, calls, pair, pDesc, pShown>>

----------------------------------------------------------------------------
\* Bounds of the model

\* longest metadata message drawn
MaxLen == 2
\* longest bind host drawn
MaxHostLen == 1
\* longest RpcStatus details string drawn
MaxDetailLen == 1
\* number of inspection calls made on one Error value
MaxCalls == 3

\* characters drawn for strings: a plain one, and the two that Debug escapes
Alphabet == {"k", "\"", "\\"}

RECURSIVE StringsUpTo(_)
StringsUpTo(n) ==
    IF n = 0 THEN {<<>>}
    ELSE LET shorter == StringsUpTo(n - 1)
         IN  shorter \cup {Append(s, c) : s \in {t \in shorter : Len(t) = n - 1}, c \in Alphabet}

\* u16 port values drawn: both ends of the range and the spec's instance
Ports == {0, 50051, 65535}

----------------------------------------------------------------------------
\* Build configuration

Features == {"protobuf-codec", "prost-codec"}

\* #[cfg(feature = "protobuf-codec")] impl From<ProtobufError> for Error
HasFromProtobufError(f) == "protobuf-codec" \in f

\* #[cfg(feature = "prost-codec")] impl From<DecodeError> for Error
\* (faulty variant: the cfg attribute left out)
HasFromDecodeErrorAlways(f) == TRUE
HasFromDecodeError(f) == "prost-codec" \in f

----------------------------------------------------------------------------
\* Payload types

None == <<>>
Some(x) == <<x>>

\* A boxed dyn error::Error: the concrete type behind the box and the text
\* that type's own Debug implementation writes.  The type is erased, and
\* Codec is a public variant that boxes any error type: a type foreign to
\* both codec libraries may write the text one of their errors writes.
CauseTypes == {"ProtobufError", "DecodeError", "Foreign"}
ProtobufTexts == {<<"E", "o", "f">>, <<"I", "o">>}
DecodeTexts == {<<"D", "e", "c">>}
CauseTexts == ProtobufTexts \cup DecodeTexts
Causes ==
    {c \in [type : CauseTypes, dbg : CauseTexts] :
        /\ c.type = "ProtobufError" => c.dbg \in ProtobufTexts
        /\ c.type = "DecodeError" => c.dbg \in DecodeTexts}
ProtobufErrors == {c \in Causes : c.type = "ProtobufError"}
DecodeErrors == {c \in Causes : c.type = "DecodeError"}

\* grpc_call_error codes
CallErrors == {0, 1, 15}

\* RpcStatus: a status code and optional details
StatusCodes == {0, 14}
Details == {None} \cup {Some(s) : s \in StringsUpTo(MaxDetailLen)}
RpcStatuses == [status : StatusCodes, details : Details]

Variants == {"Codec", "CallFailure", "RpcFailure", "RpcFinished", "RemoteStopped",
             "ShutdownFailed", "BindFail", "QueueShutdown",
             "GoogleAuthenticationFailed", "InvalidMetadata"}

\* enum Error.  Every value carries all fields; a field its variant does not
\* declare holds the default below and is never read.
Blank == [variant |-> "RemoteStopped", cause |-> None, code |-> 0, status |-> None,
          host |-> <<>>, port |-> 0, msg |-> <<>>]

Codec(c) == [Blank EXCEPT !.variant = "Codec", !.cause = Some(c)]
CallFailure(n) == [Blank EXCEPT !.variant = "CallFailure", !.code = n]
RpcFailure(s) == [Blank EXCEPT !.variant = "RpcFailure", !.status = Some(s)]
RpcFinished(os) == [Blank EXCEPT !.variant = "RpcFinished", !.status = os]
RemoteStopped == Blank
ShutdownFailed == [Blank EXCEPT !.variant = "ShutdownFailed"]
BindFail(h, p) == [Blank EXCEPT !.variant = "BindFail", !.host = h, !.port = p]
QueueShutdown == [Blank EXCEPT !.variant = "QueueShutdown"]
GoogleAuthenticationFailed == [Blank EXCEPT !.variant = "GoogleAuthenticationFailed"]
InvalidMetadata(m) == [Blank EXCEPT !.variant = "InvalidMetadata", !.msg = m]

Errors ==
    {Codec(c) : c \in Causes}
    \cup {CallFailure(n) : n \in CallErrors}
    \cup {RpcFailure(s) : s \in RpcStatuses}
    \cup {RpcFinished(None)} \cup {RpcFinished(Some(s)) : s \in RpcStatuses}
    \cup {RemoteStopped, ShutdownFailed, QueueShutdown, GoogleAuthenticationFailed}
    \cup {BindFail(h, p) : h \in StringsUpTo(MaxHostLen), p \in Ports}
    \cup {InvalidMetadata(m) : m \in StringsUpTo(MaxLen)}

----------------------------------------------------------------------------
\* Rendering: #[derive(Debug)] on Error and the Debug of its payload types

\* the variant names as derive(Debug) writes them
VariantName(v) ==
    CASE v = "Codec" -> <<"C", "o", "d", "e", "c">>
      [] v = "CallFailure" -> <<"C", "a", "l", "l", "F", "a", "i", "l", "u", "r", "e">>
      [] v = "RpcFailure" -> <<"R", "p", "c", "F", "a", "i", "l", "u", "r", "e">>
      [] v = "RpcFinished" -> <<"R", "p", "c", "F", "i", "n", "i", "s", "h", "e", "d">>
      [] v = "RemoteStopped" -> <<"R", "e", "m", "o", "t", "e", "S", "t", "o", "p", "p", "e", "d">>
      [] v = "ShutdownFailed" -> <<"S", "h", "u", "t", "d", "o", "w", "n", "F", "a", "i", "l", "e", "d">>
      [] v = "BindFail" -> <<"B", "i", "n", "d", "F", "a", "i", "l">>
      [] v = "QueueShutdown" -> <<"Q", "u", "e", "u", "e", "S", "h", "u", "t", "d", "o", "w", "n">>
      [] v = "GoogleAuthenticationFailed" -> <<"G", "o", "o", "g", "l", "e", "A", "u", "t", "h", "e", "n", "t", "i", "c", "a", "t", "i", "o", "n", "F", "a", "i", "l", "e", "d">>
      [] v = "InvalidMetadata" -> <<"I", "n", "v", "a", "l", "i", "d", "M", "e", "t", "a", "d", "a", "t", "a">>

\* str's Debug escapes the quote and the backslash with a backslash
\* (char::escape_debug); the other drawn characters are written as they are.
EscapeChar(c) ==
    IF c = "\"" \/ c = "\\" THEN <<"\\", c>> ELSE <<c>>

RECURSIVE Escape(_)
Escape(s) == IF s = <<>> THEN <<>> ELSE EscapeChar(Head(s)) \o Escape(Tail(s))

\* <str as Debug>::fmt: the escaped text between double quotes
DebugStr(s) == <<"\"">> \o Escape(s) \o <<"\"">>

Digit(d) == CASE d = 0 -> "0" [] d = 1 -> "1" [] d = 2 -> "2" [] d = 3 -> "3"
              [] d = 4 -> "4" [] d = 5 -> "5" [] d = 6 -> "6" [] d = 7 -> "7"
              [] d = 8 -> "8" [] d = 9 -> "9"

\* the decimal digits of an unsigned integer, as the integer Debug writes them
RECURSIVE Digits(_)
Digits(n) == IF n < 10 THEN <<Digit(n)>> ELSE Append(Digits(n \div 10), Digit(n % 10))

\* <Option<String> as Debug>::fmt
DebugOptString(o) ==
    IF o = None THEN <<"N", "o", "n", "e">>
    ELSE <<"S", "o", "m", "e", "(">> \o DebugStr(o[1]) \o <<")">>

\* derive(Debug) on RpcStatus { status, details }
DebugRpcStatus(s) ==
    <<"R", "p", "c", "S", "t", "a", "t", "u", "s", " ", "{", " ", "s", "t", "a", "t", "u", "s", ":", " ">> \o Digits(s.status)
    \o <<",", " ", "d", "e", "t", "a", "i", "l", "s", ":", " ">> \o DebugOptString(s.details) \o <<" ", "}">>

\* <Option<RpcStatus> as Debug>::fmt
DebugOptStatus(o) ==
    IF o = None THEN <<"N", "o", "n", "e">>
    ELSE <<"S", "o", "m", "e", "(">> \o DebugRpcStatus(o[1]) \o <<")">>

\* <Box<dyn Error + Send + Sync> as Debug>::fmt forwards to the boxed value
DebugCause(c) == c.dbg

\* The field list derive(Debug) writes for a variant: nothing for a unit
\* variant, otherwise the fields between parentheses, separated by ", ".
\* Faulty variants: RpcFinished's status left out; BindFail's port left out.
DebugFieldsNoStatus(e) ==
    CASE e.variant = "Codec" -> <<"(">> \o DebugCause(e.cause[1]) \o <<")">>
      [] e.variant = "CallFailure" -> <<"(">> \o Digits(e.code) \o <<")">>
      [] e.variant = "RpcFailure" -> <<"(">> \o DebugRpcStatus(e.status[1]) \o <<")">>
      [] e.variant = "RpcFinished" -> <<"(", ".", ".", ")">>
      [] e.variant = "BindFail" ->
            <<"(">> \o DebugStr(e.host) \o <<",", " ">> \o Digits(e.port) \o <<")">>
      [] e.variant = "InvalidMetadata" -> <<"(">> \o DebugStr(e.msg) \o <<")">>
      [] OTHER -> <<>>
DebugFieldsNoPort(e) ==
    CASE e.variant = "Codec" -> <<"(">> \o DebugCause(e.cause[1]) \o <<")">>
      [] e.variant = "CallFailure" -> <<"(">> \o Digits(e.code) \o <<")">>
      [] e.variant = "RpcFailure" -> <<"(">> \o DebugRpcStatus(e.status[1]) \o <<")">>
      [] e.variant = "RpcFinished" -> <<"(">> \o DebugOptStatus(e.status) \o <<")">>
      [] e.variant = "BindFail" -> <<"(">> \o DebugStr(e.host) \o <<")">>
      [] e.variant = "InvalidMetadata" -> <<"(">> \o DebugStr(e.msg) \o <<")">>
      [] OTHER -> <<>>
DebugFields(e) ==
    CASE e.variant = "Codec" -> <<"(">> \o DebugCause(e.cause[1]) \o <<")">>
      [] e.variant = "CallFailure" -> <<"(">> \o Digits(e.code) \o <<")">>
      [] e.variant = "RpcFailure" -> <<"(">> \o DebugRpcStatus(e.status[1]) \o <<")">>
      [] e.variant = "RpcFinished" -> <<"(">> \o DebugOptStatus(e.status) \o <<")">>
      [] e.variant = "BindFail" ->
            <<"(">> \o DebugStr(e.host) \o <<",", " ">> \o Digits(e.port) \o <<")">>
      [] e.variant = "InvalidMetadata" -> <<"(">> \o DebugStr(e.msg) \o <<")">>
      [] OTHER -> <<>>

\* derive(Debug) on enum Error
DebugError(e) == VariantName(e.variant) \o DebugFields(e)

\* impl Display for Error: write!(fmt, "{:?}", self)
\* (faulty variant: the variant name alone)
DisplayNameOnly(e) == VariantName(e.variant)
Display(e) == DebugError(e)

\* s contains sub as a contiguous substring
Contains(s, sub) ==
    \E i \in 1..(Len(s) - Len(sub) + 1) : SubSeq(s, i, i + Len(sub) - 1) = sub

----------------------------------------------------------------------------
\* impl error::Error for Error

\* fn description(&self) -> &str
\* faulty variants: the "gRPC " prefix left out; two arms exchanged; the
\* string chosen by the payload as well as by the tag
descriptionUnprefixed(e) ==
    CASE e.variant = "Codec" -> "Codec Error"
      [] e.variant = "CallFailure" -> "Call Error"
      [] e.variant = "RpcFailure" -> "Request Error"
      [] e.variant = "RpcFinished" -> "Finish Error"
      [] e.variant = "RemoteStopped" -> "Remote is stopped."
      [] e.variant = "ShutdownFailed" -> "Failed to shutdown."
      [] e.variant = "BindFail" -> "Bind Error"
      [] e.variant = "QueueShutdown" -> "completion queue shutdown"
      [] e.variant = "GoogleAuthenticationFailed" ->
            "Could not create google default credentials."
      [] e.variant = "InvalidMetadata" -> "invalid format of metadata"
descriptionSwapped(e) ==
    CASE e.variant = "Codec" -> "gRPC Codec Error"
      [] e.variant = "CallFailure" -> "gRPC Request Error"
      [] e.variant = "RpcFailure" -> "gRPC Call Error"
      [] e.variant = "RpcFinished" -> "gRPC Finish Error"
      [] e.variant = "RemoteStopped" -> "Remote is stopped."
      [] e.variant = "ShutdownFailed" -> "Failed to shutdown."
      [] e.variant = "BindFail" -> "gRPC Bind Error"
      [] e.variant = "QueueShutdown" -> "gRPC completion queue shutdown"
      [] e.variant = "GoogleAuthenticationFailed" ->
            "Could not create google default credentials."
      [] e.variant = "InvalidMetadata" -> "invalid format of metadata"
descriptionByPayload(e) ==
    CASE e.variant = "Codec" -> "gRPC Codec Error"
      [] e.variant = "CallFailure" -> "gRPC Call Error"
      [] e.variant = "RpcFailure" -> "gRPC Request Error"
      [] e.variant = "RpcFinished" ->
            IF e.status = None THEN "gRPC Finish Error" ELSE "gRPC Request Error"
      [] e.variant = "RemoteStopped" -> "Remote is stopped."
      [] e.variant = "ShutdownFailed" -> "Failed to shutdown."
      [] e.variant = "BindFail" -> "gRPC Bind Error"
      [] e.variant = "QueueShutdown" -> "gRPC completion queue shutdown"
      [] e.variant = "GoogleAuthenticationFailed" ->
            "Could not create google default credentials."
      [] e.variant = "InvalidMetadata" -> "invalid format of metadata"
description(e) ==
    CASE e.variant = "Codec" -> "gRPC Codec Error"
      [] e.variant = "CallFailure" -> "gRPC Call Error"
      [] e.variant = "RpcFailure" -> "gRPC Request Error"
      [] e.variant = "RpcFinished" -> "gRPC Finish Error"
      [] e.variant = "RemoteStopped" -> "Remote is stopped."
      [] e.variant = "ShutdownFailed" -> "Failed to shutdown."
      [] e.variant = "BindFail" -> "gRPC Bind Error"
      [] e.variant = "QueueShutdown" -> "gRPC completion queue shutdown"
      [] e.variant = "GoogleAuthenticationFailed" ->
            "Could not create google default credentials."
      [] e.variant = "InvalidMetadata" -> "invalid format of metadata"

\* fn cause(&self) -> Option<&dyn error::Error>
\* (faulty variant: never a cause)
causeNever(e) == None
cause(e) == IF e.variant = "Codec" THEN Some(e.cause[1]) ELSE None

\* impl From<ProtobufError> for Error / impl From<DecodeError> for Error:
\* Error::Codec(Box::new(e))
\* (faulty variant: the text of e is kept in a new error, e itself is dropped)
fromDropping(e) == Codec([type |-> "Foreign", dbg |-> e.dbg])
from(e) == Codec(e)

----------------------------------------------------------------------------
\* Operations on one Error value

\* description, cause and fmt take &self: the value is the same afterwards
\* (faulty variant: the inspection takes the value's content out of it)
selfTaken(e) == [e EXCEPT !.variant = "RemoteStopped", !.cause = None]
self(e) == e

single == <<err, src, desc, cau, shown, calls>>
paired == <<pair, pDesc, pShown>>

Init ==
    /\ features \in SUBSET Features
    /\ err = None /\ src = None
    /\ desc = None /\ cau = None /\ shown = None
    /\ calls = 0
    /\ pair = <<None, None>> /\ pDesc = <<None, None>> /\ pShown = <<None, None>>

\* Construct(variant, payload): any variant from any payload of its types
Construct(e) ==
    /\ err = None
    /\ err' = Some(e)
    /\ UNCHANGED <<features, src, desc, cau, shown, calls, paired>>

\* let e: Error = protobuf_error.into(), compiled under protobuf-codec
FromProtobufError(e) ==
    /\ err = None
    /\ HasFromProtobufError(features)
    /\ err' = Some(from(e))
    /\ src' = Some(e)
    /\ UNCHANGED <<features, desc, cau, shown, calls, paired>>

\* let e: Error = decode_error.into(), compiled under prost-codec
FromDecodeError(e) ==
    /\ err = None
    /\ HasFromDecodeError(features)
    /\ err' = Some(from(e))
    /\ src' = Some(e)
    /\ UNCHANGED <<features, desc, cau, shown, calls, paired>>

\* e.description()
Description ==
    /\ err # None
    /\ calls < MaxCalls
    /\ desc' = Some(description(err[1]))
    /\ err' = Some(self(err[1]))
    /\ calls' = calls + 1
    /\ UNCHANGED <<features, src, cau, shown, paired>>

\* e.cause()
Cause ==
    /\ err # None
    /\ calls < MaxCalls
    /\ cau' = Some(cause(err[1]))
    /\ err' = Some(self(err[1]))
    /\ calls' = calls + 1
    /\ UNCHANGED <<features, src, desc, shown, paired>>

\* format!("{}", e)
Fmt ==
    /\ err # None
    /\ calls < MaxCalls
    /\ shown' = Some(Display(err[1]))
    /\ err' = Some(self(err[1]))
    /\ calls' = calls + 1
    /\ UNCHANGED <<features, src, desc, cau, paired>>

Next ==
    \/ \E e \in Errors : Construct(e)
    \/ \E e \in ProtobufErrors : FromProtobufError(e)
    \/ \E e \in DecodeErrors : FromDecodeError(e)
    \/ Description
    \/ Cause
    \/ Fmt

Spec == Init /\ [][Next]_vars

----------------------------------------------------------------------------
\* Operations on two Error values held side by side

Slots == {1, 2}

InitPair ==
    /\ Init
    /\ features = {"protobuf-codec"}

ConstructIn(i, e) ==
    /\ pair[i] = None
    /\ pair' = [pair EXCEPT ![i] = Some(e)]
    /\ UNCHANGED <<features, single, pDesc, pShown>>

DescriptionIn(i) ==
    /\ pair[i] # None
    /\ pDesc[i] = None
    /\ pDesc' = [pDesc EXCEPT ![i] = Some(description(pair[i][1]))]
    /\ UNCHANGED <<features, single, pair, pShown>>

FmtIn(i) ==
    /\ pair[i] # None
    /\ pShown[i] = None
    /\ pShown' = [pShown EXCEPT ![i] = Some(Display(pair[i][1]))]
    /\ UNCHANGED <<features, single, pair, pDesc>>

NextPair ==
    \/ \E i \in Slots, e \in Errors : ConstructIn(i, e)
    \/ \E i \in Slots : DescriptionIn(i)
    \/ \E i \in Slots : FmtIn(i)

SpecPair == InitPair /\ [][NextPair]_vars

----------------------------------------------------------------------------
\* Properties of the operations on one Error value (specification Spec)

\* The table of category descriptions as the specification document gives it
SpecDescription(v) ==
    CASE v = "Codec" -> "Codec Error"
      [] v = "CallFailure" -> "Call Error"
      [] v = "RpcFailure" -> "Request Error"
      [] v = "RpcFinished" -> "Finish Error"
      [] v = "RemoteStopped" -> "Remote is stopped."
      [] v = "ShutdownFailed" -> "Failed to shutdown."
      [] v = "BindFail" -> "Bind Error"
      [] v = "QueueShutdown" -> "completion queue shutdown"
      [] v = "GoogleAuthenticationFailed" -> "Could not create google default credentials."
      [] v = "InvalidMetadata" -> "invalid format of metadata"

\* The same table with "gRPC " before the six strings the document gives short
PrefixedDescription(v) ==
    CASE v = "Codec" -> "gRPC Codec Error"
      [] v = "CallFailure" -> "gRPC Call Error"
      [] v = "RpcFailure" -> "gRPC Request Error"
      [] v = "RpcFinished" -> "gRPC Finish Error"
      [] v = "BindFail" -> "gRPC Bind Error"
      [] v = "QueueShutdown" -> "gRPC completion queue shutdown"
      [] OTHER -> SpecDescription(v)

\* C1, as stated: description returns, for each of the 10 variants, exactly
\* the string the specification document maps to it.
C1_DescriptionIsSpecString ==
    desc # None => desc[1] = SpecDescription(err[1].variant)

\* C1, amended: description returns the document's string for RemoteStopped,
\* ShutdownFailed, GoogleAuthenticationFailed and InvalidMetadata, and the
\* document's string prefixed with "gRPC " for Codec, CallFailure, RpcFailure,
\* RpcFinished, BindFail and QueueShutdown.
C1_DescriptionIsPrefixedString ==
    desc # None => desc[1] = PrefixedDescription(err[1].variant)

\* description has returned on a QueueShutdown, one of the prefixed variants
C1_Witness ==
    /\ desc # None
    /\ err[1].variant = "QueueShutdown"
    /\ desc[1] = "gRPC completion queue shutdown"

\* C2: cause returns a present cause if and only if the variant is Codec; on
\* every value of the other nine variants it returns None.
C2_CauseIffCodec ==
    cau # None => (cau[1] # None <=> err[1].variant = "Codec")

\* cause has returned a present cause on a Codec built directly
C2_Witness ==
    /\ cau # None /\ src = None
    /\ err[1].variant = "Codec"
    /\ cau[1] # None

\* C3: converting a codec library error e yields a Codec whose cause is
\* present and is e itself, so the cause renders exactly as e does.
C3_ConversionKeepsCause ==
    src # None =>
        /\ err[1].variant = "Codec"
        /\ err[1].cause = Some(src[1])
        /\ cau # None =>
              /\ cau[1] = Some(src[1])
              /\ DebugCause(cau[1][1]) = DebugCause(src[1])

\* a DecodeError has been converted and cause has returned on the result
C3_Witness ==
    /\ src # None /\ src[1].type = "DecodeError"
    /\ cau # None

\* C4: the Error converted from a ProtobufError has description exactly
\* "gRPC Codec Error" and a present cause (tests::test_convert).
C4_ConvertedProtobufError ==
    (src # None /\ src[1].type = "ProtobufError") =>
        /\ desc # None => desc[1] = "gRPC Codec Error"
        /\ cau # None => cau[1] # None

\* the test's two assertions have both been evaluated on a converted error
C4_Witness ==
    /\ src # None /\ src[1].type = "ProtobufError"
    /\ desc # None /\ cau # None

\* C5, as stated: in every build configuration at most one of the two
\* conversions exists.
C5_AtMostOneConversion ==
    ~(HasFromProtobufError(features) /\ HasFromDecodeError(features))

\* C5, amended: each conversion exists exactly when its own feature is
\* enabled, and only an existing conversion is ever applied; so a build with
\* at most one codec feature has at most one conversion, and a build with
\* both features has both.
C5_ConversionPerFeature ==
    /\ HasFromProtobufError(features) <=> "protobuf-codec" \in features
    /\ HasFromDecodeError(features) <=> "prost-codec" \in features
    /\ Cardinality(features \cap Features) <= 1 =>
          ~(HasFromProtobufError(features) /\ HasFromDecodeError(features))
    /\ src # None =>
          /\ src[1].type = "ProtobufError" => "protobuf-codec" \in features
          /\ src[1].type = "DecodeError" => "prost-codec" \in features

\* a build with the prost family alone, in which a DecodeError was converted
C5_Witness ==
    /\ features = {"prost-codec"}
    /\ src # None /\ src[1].type = "DecodeError"

\* the characters of the drawn alphabet that str's Debug escapes
Escaped == {"\"", "\\"}
NeedsNoEscape(s) == \A i \in 1..Len(s) : s[i] \notin Escaped

\* C9, as stated: the rendering of InvalidMetadata(m) contains m verbatim,
\* and the rendering of BindFail(h, p) contains h verbatim and the decimal
\* digits of p.
C9_ContainsTextVerbatim ==
    shown # None =>
        /\ err[1].variant = "InvalidMetadata" => Contains(shown[1], err[1].msg)
        /\ err[1].variant = "BindFail" =>
              /\ Contains(shown[1], err[1].host)
              /\ Contains(shown[1], Digits(err[1].port))

\* C9, amended: the rendering of InvalidMetadata(m) contains m as str's Debug
\* writes it (between double quotes, each double quote and backslash preceded
\* by a backslash), and so contains m verbatim whenever m has no character
\* that Debug escapes; the same for the host of BindFail(h, p), whose
\* rendering also contains the decimal digits of p.
C9_ContainsTextEscaped ==
    shown # None =>
        /\ err[1].variant = "InvalidMetadata" =>
              /\ Contains(shown[1], <<"\"">> \o Escape(err[1].msg) \o <<"\"">>)
              /\ NeedsNoEscape(err[1].msg) => Contains(shown[1], err[1].msg)
        /\ err[1].variant = "BindFail" =>
              /\ Contains(shown[1], <<"\"">> \o Escape(err[1].host) \o <<"\"">>)
              /\ NeedsNoEscape(err[1].host) => Contains(shown[1], err[1].host)
              /\ Contains(shown[1], Digits(err[1].port))

\* BindFail("k", 50051) has been rendered
C9_Witness ==
    /\ shown # None
    /\ err[1].variant = "BindFail"
    /\ err[1].host = <<"k">> /\ err[1].port = 50051
    /\ shown[1] = <<"B", "i", "n", "d", "F", "a", "i", "l", "(", "\"", "k", "\"",
                    ",", " ", "5", "0", "0", "5", "1", ")">>

----------------------------------------------------------------------------
\* Properties of two Error values side by side (specification SpecPair)

BothBuilt == pair[1] # None /\ pair[2] # None
BothShown == BothBuilt /\ pShown[1] # None /\ pShown[2] # None
BothDescribed == BothBuilt /\ pDesc[1] # None /\ pDesc[2] # None

\* C6, as stated: two Error values that differ in variant or in any payload
\* value render to different strings.
C6_RenderInjective ==
    (BothShown /\ pair[1] # pair[2]) => pShown[1] # pShown[2]

\* two values have the same variant and payloads that their Debug renders alike
SameDebugContent(a, b) ==
    /\ a.variant = b.variant
    /\ IF a.variant = "Codec"
       THEN DebugCause(a.cause[1]) = DebugCause(b.cause[1])
       ELSE a = b

\* C6, amended: two Error values render to the same string exactly when they
\* have the same variant and their payloads have the same Debug rendering.
\* Values that differ in variant, or in a string, port, call code or status
\* payload, render differently; two Codec values render alike exactly when
\* their boxed causes print alike, whatever the causes' types.
C6_RenderInjectiveUpToDebug ==
    BothShown => (pShown[1] = pShown[2] <=> SameDebugContent(pair[1][1], pair[2][1]))

\* two BindFail values that differ only in the port have both been rendered
C6_Witness ==
    /\ BothShown
    /\ pair[1][1].variant = "BindFail" /\ pair[2][1].variant = "BindFail"
    /\ pair[1][1].host = pair[2][1].host
    /\ pair[1][1].port # pair[2][1].port
    /\ pShown[1] # pShown[2]

\* C7: description depends on the variant tag alone: two values of the same
\* variant have the same description, whatever their payloads.
C7_DescriptionIgnoresPayload ==
    (BothDescribed /\ pair[1][1].variant = pair[2][1].variant) => pDesc[1] = pDesc[2]

\* two values of one variant with different payloads have both been described
C7_Witness ==
    /\ BothDescribed
    /\ pair[1][1].variant = "RpcFinished" /\ pair[2][1].variant = "RpcFinished"
    /\ pair[1][1].status = None /\ pair[2][1].status # None

IsFinishedPair ==
    /\ BothBuilt
    /\ pair[1][1].variant = "RpcFinished" /\ pair[1][1].status = None
    /\ pair[2][1].variant = "RpcFinished" /\ pair[2][1].status # None

\* C8, as stated: RpcFinished(None) and RpcFinished(Some(s)) render
\* differently, and the description of both is "Finish Error".
C8_FinishedDistinctSpecString ==
    IsFinishedPair =>
        /\ (pShown[1] # None /\ pShown[2] # None) => pShown[1] # pShown[2]
        /\ pDesc[1] # None => pDesc[1][1] = "Finish Error"
        /\ pDesc[2] # None => pDesc[2][1] = "Finish Error"

\* C8, amended: RpcFinished(None) and RpcFinished(Some(s)) render
\* differently, and the description of both is "gRPC Finish Error".
C8_FinishedDistinctPrefixed ==
    IsFinishedPair =>
        /\ (pShown[1] # None /\ pShown[2] # None) => pShown[1] # pShown[2]
        /\ pDesc[1] # None => pDesc[1][1] = "gRPC Finish Error"
        /\ pDesc[2] # None => pDesc[2][1] = "gRPC Finish Error"

\* both RpcFinished values have been rendered and described
C8_Witness ==
    /\ IsFinishedPair
    /\ BothShown /\ BothDescribed
    /\ pShown[1][1] = <<"R", "p", "c", "F", "i", "n", "i", "s", "h", "e", "d",
                        "(", "N", "o", "n", "e", ")">>

====
